---- MODULE Spec2Model ----
(***************************************************************************)
(* Model of src/lib.js: the default export (here called encode), which     *)
(* writes a 44-byte RIFF/WAVE header and 16-bit PCM samples through a      *)
(* DataView, the exported clamp, and floatTo16BitPCM.                      *)
(*                                                                         *)
(* A JavaScript number is modelled as a record [kind, num]: kind "fin"     *)
(* denotes the rational num / Den, the kinds "nan", "pinf", "ninf" denote  *)
(* NaN, +Infinity and -Infinity.  Den is a power of two, so every finite   *)
(* value of the model and every product the code forms from it is exact    *)
(* in IEEE double arithmetic.                                              *)
(*                                                                         *)
(* A DataView over its ArrayBuffer is a record [buffer, threw]: buffer is  *)
(* a function from 0 .. byteLength-1 to bytes, threw records that a write  *)
(* raised a RangeError (after which nothing more of the call runs).        *)
(***************************************************************************)
EXTENDS Integers, Sequences, FiniteSets, TLC

VARIABLES data, rateGiven, sampleRate, calls, blob,
          cInput, cOpts, cCalled, cResult

vars == <<data, rateGiven, sampleRate, calls, blob,
          cInput, cOpts, cCalled, cResult>>

-----------------------------------------------------------------------------
(* Bounds of the model *)

\* samples carry FracBits binary fraction digits
FracBits == 2
\* longest input sequence
MaxLen == 2
\* number of encode calls made on one input
MaxCalls == 2

Den == 2 ^ FracBits
\* largest sample numerator: the samples range over [-1.5, 1.5]
MaxNum == Den + Den \div 2

-----------------------------------------------------------------------------
(* JavaScript numbers *)

Fin(n) == [kind |-> "fin", num |-> n]
NaN == [kind |-> "nan", num |-> 0]
PosInf == [kind |-> "pinf", num |-> 0]
NegInf == [kind |-> "ninf", num |-> 0]

\* the integer k as a number
Int2Num(k) == Fin(k * Den)

\* JavaScript a > b
Gt(a, b) ==
  IF a.kind = "nan" \/ b.kind = "nan" THEN FALSE
  ELSE IF a.kind = "pinf" THEN b.kind # "pinf"
  ELSE IF a.kind = "ninf" THEN FALSE
  ELSE IF b.kind = "pinf" THEN FALSE
  ELSE IF b.kind = "ninf" THEN TRUE
  ELSE a.num > b.num

\* JavaScript a < b
Lt(a, b) == Gt(b, a)

\* JavaScript x * c for an integer constant c > 0
Times(x, c) == IF x.kind = "fin" THEN Fin(x.num * c) ELSE x

\* the integer part of n / d (d > 0), rounded toward zero
TruncTowardZero(n, d) == IF n >= 0 THEN n \div d ELSE -((-n) \div d)

\* ToInt16 of the ECMAScript specification, applied by DataView.setInt16
ToInt16(x) ==
  IF x.kind # "fin" THEN 0
  ELSE LET int == TruncTowardZero(x.num, Den)
           int16bit == int % 65536
       IN IF int16bit >= 32768 THEN int16bit - 65536 ELSE int16bit

-----------------------------------------------------------------------------
(* DataView *)

\* new DataView(new ArrayBuffer(length)): zero-filled
NewDataView(length) == [buffer |-> [i \in 0 .. length - 1 |-> 0], threw |-> FALSE]

ByteLength(view) == Cardinality(DOMAIN view.buffer)

\* byte i (0 = least significant) of the two's complement form of value
ByteOf(value, i) == (value \div (256 ^ i)) % 256

\* stores the size bytes of value at byteOffset
SetBytes(view, byteOffset, size, value, littleEndian) ==
  IF view.threw THEN view
  ELSE IF byteOffset < 0 \/ byteOffset + size > ByteLength(view)
       THEN [view EXCEPT !.threw = TRUE]
       ELSE [view EXCEPT !.buffer =
               [i \in DOMAIN view.buffer |->
                  IF i >= byteOffset /\ i < byteOffset + size
                  THEN IF littleEndian
                       THEN ByteOf(value, i - byteOffset)
                       ELSE ByteOf(value, size - 1 - (i - byteOffset))
                  ELSE view.buffer[i]]]

\* DataView.prototype.setUint32 for an integer value (ToUint32 = the low 32 bits)
SetUint32(view, byteOffset, value, littleEndian) ==
  SetBytes(view, byteOffset, 4, value, littleEndian)

\* setUint16 that ignores its littleEndian argument
SetUint16BE(view, byteOffset, value, littleEndian) ==
  SetBytes(view, byteOffset, 2, value, FALSE)

\* DataView.prototype.setUint16 for an integer value
SetUint16(view, byteOffset, value, littleEndian) ==
  SetBytes(view, byteOffset, 2, value, littleEndian)

\* DataView.prototype.setInt16 for any number
SetInt16(view, byteOffset, value, littleEndian) ==
  SetBytes(view, byteOffset, 2, ToInt16(value), littleEndian)

-----------------------------------------------------------------------------
(* src/lib.js *)

HeaderSize == 44
DefaultSampleRate == 44100

\* JavaScript a <= b and a >= b
Le(a, b) == a.kind # "nan" /\ b.kind # "nan" /\ ~Gt(a, b)
Ge(a, b) == Le(b, a)

\* clamp with its first comparison reversed
clampReversed(input, opts) ==
  IF Lt(input, opts.max) THEN opts.max
  ELSE IF Lt(input, opts.min) THEN opts.min
  ELSE input

\* clamp written with >= and <=, which sends NaN to min
clampNaNToMin(input, opts) ==
  IF Ge(input, opts.min)
  THEN (IF Le(input, opts.max) THEN input ELSE opts.max)
  ELSE opts.min

\* export const clamp = (input, { max, min }) => ...
clamp(input, opts) ==
  IF Gt(input, opts.max) THEN opts.max
  ELSE IF Lt(input, opts.min) THEN opts.min
  ELSE input

\* byte offset that advances one byte per sample
ByteOffsetPacked(offset, index) == offset + index

\* const byteOffset = offset + index * 2
ByteOffset(offset, index) == offset + index * 2

\* scaling by 0x8000 on both sides of zero
ScaleSymmetric(clampedInput) == Times(clampedInput, 32768)

\* clampedInput < 0 ? clampedInput * 0x8000 : clampedInput * 0x7FFF
Scale(clampedInput) ==
  IF Lt(clampedInput, Int2Num(0))
  THEN Times(clampedInput, 32768)
  ELSE Times(clampedInput, 32767)

\* a callback that also stores the clamped value back into the input
CallbackInPlace(st, value, index) ==
  LET clampedInput == clamp(value, [max |-> Int2Num(1), min |-> Int2Num(-1)])
      byteOffset == ByteOffset(st.offset, index)
      d == Scale(clampedInput)
  IN [st EXCEPT !.output = SetInt16(st.output, byteOffset, d, TRUE),
                !.input = [st.input EXCEPT ![index + 1] = clampedInput]]

\* the forEach callback; st = [output, offset, input]: output and input are
\* the two objects it can reach
Callback(st, value, index) ==
  LET clampedInput == clamp(value, [max |-> Int2Num(1), min |-> Int2Num(-1)])
      byteOffset == ByteOffset(st.offset, index)
      d == Scale(clampedInput)
  IN [st EXCEPT !.output = SetInt16(st.output, byteOffset, d, TRUE)]

\* input.forEach(callback), from index on (indices are 0-based as in the source)
RECURSIVE ForEach(_, _)
ForEach(st, index) ==
  IF st.output.threw \/ index >= Len(st.input) THEN st
  ELSE ForEach(Callback(st, st.input[index + 1], index), index + 1)

floatTo16BitPCM(output, offset, input) ==
  ForEach([output |-> output, offset |-> offset, input |-> input], 0)

\* a parameter that replaces non-positive rates by the default
SampleRateValidated(given, rate) ==
  IF given /\ rate > 0 THEN rate ELSE DefaultSampleRate

\* sampleRate = 44100 default parameter
SampleRateParam(given, rate) == IF given THEN rate ELSE DefaultSampleRate

\* a buffer with one byte per sample
BufferLengthBytes(n) == HeaderSize + n
\* the whole file size instead of the size after the first 8 bytes
ChunkSizeWhole(n) == 44 + n * 2

\* new ArrayBuffer(44 + data.length * 2)
BufferLength(n) == HeaderSize + n * 2
\* 36 + data.length * 2
ChunkSize(n) == 36 + n * 2
\* data.length * 2
Subchunk2Size(n) == n * 2
\* (sampleRate * 2 * 1) / 8, whose fraction setUint32 drops (ToUint32)
ByteRate(rate) == TruncTowardZero(rate * 2 * 1, 8)

\* the header writes of the default export, in source order
WriteHeader(view, n, rate) ==
  LET v1 == SetUint32(view, 0, 1380533830, FALSE)
      v2 == SetUint32(v1, 4, ChunkSize(n), TRUE)
      v3 == SetUint32(v2, 8, 1463899717, FALSE)
      v4 == SetUint32(v3, 12, 1718449184, FALSE)
      v5 == SetUint32(v4, 16, 16, TRUE)
      v6 == SetUint16(v5, 20, 1, TRUE)
      v7 == SetUint16(v6, 22, 1, TRUE)
      v8 == SetUint32(v7, 24, rate, TRUE)
      v9 == SetUint32(v8, 28, ByteRate(rate), TRUE)
      v10 == SetUint16(v9, 32, 2, TRUE)
      v11 == SetUint16(v10, 34, 16, TRUE)
      v12 == SetUint32(v11, 36, 1684108385, FALSE)
  IN SetUint32(v12, 40, Subchunk2Size(n), TRUE)

\* return new Blob([view.buffer], { type: 'audio/wav' }), together with the
\* input object as the call leaves it; st is what floatTo16BitPCM left
Return(st) ==
  [blob |-> [bytes |-> st.output.buffer,
             size |-> ByteLength(st.output),
             type |-> "audio/wav",
             threw |-> st.output.threw],
   input |-> st.input]

\* the default export
encode(input, given, rate) ==
  LET sr == SampleRateParam(given, rate)
      view == NewDataView(BufferLength(Len(input)))
      header == WriteHeader(view, Len(input), sr)
  IN Return(floatTo16BitPCM(header, HeaderSize, input))

-----------------------------------------------------------------------------
(* Inputs *)

\* magnitudes of the finite samples: zero, the smallest step, a half, just
\* below one, one, just above one, and the largest (every step when Den = 4)
Magnitudes == {0, 1, Den \div 2, Den - 1, Den, Den + 1, MaxNum}

SampleValues ==
  {Fin(s * k) : s \in {-1, 1}, k \in Magnitudes} \cup {NaN, PosInf, NegInf}

RECURSIVE SeqsUpTo(_, _)
SeqsUpTo(S, n) ==
  IF n = 0 THEN {<<>>}
  ELSE LET shorter == SeqsUpTo(S, n - 1)
       IN shorter \cup {Append(s, x) : s \in {t \in shorter : Len(t) = n - 1}, x \in S}

Inputs == SeqsUpTo(SampleValues, MaxLen)

SampleRates == {-1, 0, 1, 6, 8000, 44100}

NoBlob == [bytes |-> <<>>, size |-> 0, type |-> "", threw |-> FALSE]
NoOpts == [max |-> Int2Num(0), min |-> Int2Num(0)]

-----------------------------------------------------------------------------
(* The encoder: a caller holding one input calls encode up to MaxCalls times *)

Init ==
  /\ data \in Inputs
  /\ rateGiven \in BOOLEAN
  /\ sampleRate \in (IF rateGiven THEN SampleRates ELSE {0})
  /\ calls = 0
  /\ blob = NoBlob
  /\ cInput = Int2Num(0) /\ cOpts = NoOpts /\ cCalled = FALSE /\ cResult = Int2Num(0)

Encode ==
  /\ calls < MaxCalls
  /\ \E r \in {encode(data, rateGiven, sampleRate)} :
        /\ blob' = r.blob
        /\ data' = r.input
  /\ calls' = calls + 1
  /\ UNCHANGED <<rateGiven, sampleRate, cInput, cOpts, cCalled, cResult>>

Next == Encode

Spec == Init /\ [][Next]_vars

-----------------------------------------------------------------------------
(* The exported clamp called on its own *)

ClampBounds == {Fin(k) : k \in -MaxNum .. MaxNum} \cup {PosInf, NegInf}

ClampInit ==
  /\ cInput \in SampleValues
  /\ cOpts \in [max : ClampBounds, min : ClampBounds]
  /\ cCalled = FALSE
  /\ cResult = Int2Num(0)
  /\ data = <<>> /\ rateGiven = FALSE /\ sampleRate = 0 /\ calls = 0 /\ blob = NoBlob

Clamp ==
  /\ ~cCalled
  /\ cResult' = clamp(cInput, cOpts)
  /\ cCalled' = TRUE
  /\ UNCHANGED <<cInput, cOpts, data, rateGiven, sampleRate, calls, blob>>

ClampNext == Clamp

ClampSpec == ClampInit /\ [][ClampNext]_vars

-----------------------------------------------------------------------------
(* Reading a produced buffer back *)

\* the blob of a finished call
Returned == calls >= 1
N == Len(data)
EffectiveRate == IF rateGiven THEN sampleRate ELSE 44100

\* DataView.getUint16 / getInt16 (little-endian) on the bytes b
GetUint16LE(b, off) == b[off] + 256 * b[off + 1]
GetInt16LE(b, off) ==
  LET u == GetUint16LE(b, off) IN IF u >= 32768 THEN u - 65536 ELSE u
\* DataView.getUint32 (little-endian), as its two 16-bit halves
GetUint32LE(b, off) == [lo |-> GetUint16LE(b, off), hi |-> GetUint16LE(b, off + 2)]
\* the unsigned 32-bit value u is the integer n
U32Is(u, n) == n >= 0 /\ u.hi = n \div 65536 /\ u.lo = n % 65536
\* the unsigned 32-bit value u is n + 2^32, for a negative n
U32IsWrapped(u, n) == n < 0 /\ u.hi >= 32768 /\ (u.hi - 65536) * 65536 + u.lo = n
\* the size bytes from off on
BytesAt(b, off, size) == [i \in 1 .. size |-> b[off + i - 1]]

\* the whole buffer came back
Whole == ~blob.threw /\ DOMAIN blob.bytes = 0 .. (44 + 2 * N - 1)

\* the 16-bit value the specification gives a sample
ExpectedFinite(x) ==
  LET c == IF x.num > Den THEN Den ELSE IF x.num < -Den THEN -Den ELSE x.num
  IN IF c < 0 THEN TruncTowardZero(c * 32768, Den)
              ELSE TruncTowardZero(c * 32767, Den)
ExpectedPCM(x) ==
  IF x.kind = "nan" THEN 0
  ELSE IF x.kind = "pinf" THEN 32767
  ELSE IF x.kind = "ninf" THEN -32768
  ELSE ExpectedFinite(x)

-----------------------------------------------------------------------------
(* Claims *)

\* C1: for every input of N >= 0 samples and every sampleRate > 0, encode
\* returns a buffer of exactly 44 + 2*N bytes.
C1_BufferLength ==
  (Returned /\ EffectiveRate > 0) =>
     /\ ~blob.threw
     /\ blob.size = 44 + 2 * N
     /\ DOMAIN blob.bytes = 0 .. (44 + 2 * N - 1)

C1_Witness == Returned /\ EffectiveRate > 0 /\ N = 2 /\ blob.size = 48

C3_ByteRate ==
  (Returned /\ rateGiven /\ sampleRate > 0) =>
     /\ Whole
     /\ U32Is(GetUint32LE(blob.bytes, 28), sampleRate * 2)

\* C4: the size-independent header fields are constant: "RIFF", "WAVE",
\* "fmt ", "data" at 0, 8, 12, 36 and 16, 1, 1, 2, 16 little-endian at
\* 16, 20, 22, 32, 34.
C4_ConstantFields ==
  Returned =>
     /\ Whole
     /\ BytesAt(blob.bytes, 0, 4) = <<82, 73, 70, 70>>
     /\ BytesAt(blob.bytes, 8, 4) = <<87, 65, 86, 69>>
     /\ BytesAt(blob.bytes, 12, 4) = <<102, 109, 116, 32>>
     /\ BytesAt(blob.bytes, 36, 4) = <<100, 97, 116, 97>>
     /\ U32Is(GetUint32LE(blob.bytes, 16), 16)
     /\ GetUint16LE(blob.bytes, 20) = 1
     /\ GetUint16LE(blob.bytes, 22) = 1
     /\ GetUint16LE(blob.bytes, 32) = 2
     /\ GetUint16LE(blob.bytes, 34) = 16

C4_Witness ==
  /\ Returned /\ N = 1 /\ rateGiven /\ sampleRate = 8000
  /\ BytesAt(blob.bytes, 0, 4) = <<82, 73, 70, 70>>
  /\ BytesAt(blob.bytes, 32, 4) = <<2, 0, 16, 0>>

\* C5 as stated: for every integer sampleRate passed the little-endian
\* uint32 at offset 24 is exactly that sampleRate, and 44100 when the
\* sampleRate is omitted.
C5_SampleRateAsIs ==
  Returned =>
     /\ Whole
     /\ (rateGiven => U32Is(GetUint32LE(blob.bytes, 24), sampleRate))
     /\ (~rateGiven => U32Is(GetUint32LE(blob.bytes, 24), 44100))

\* C5 amended: encode neither rejects nor replaces sampleRate and stores its
\* low 32 bits: a sampleRate in [0, 2^32) reads back unchanged, a negative
\* one reads back as sampleRate + 2^32, an omitted one as 44100.
C5_SampleRateLow32 ==
  Returned =>
     /\ Whole
     /\ ((rateGiven /\ sampleRate >= 0) =>
            U32Is(GetUint32LE(blob.bytes, 24), sampleRate))
     /\ ((rateGiven /\ sampleRate < 0) =>
            U32IsWrapped(GetUint32LE(blob.bytes, 24), sampleRate))
     /\ (~rateGiven => U32Is(GetUint32LE(blob.bytes, 24), 44100))

C5_Witness ==
  /\ Returned /\ rateGiven /\ sampleRate = -1
  /\ BytesAt(blob.bytes, 24, 4) = <<255, 255, 255, 255>>

\* C6: sample i occupies exactly bytes [44 + 2*i, 44 + 2*i + 2) as one
\* signed little-endian 16-bit integer, in input order; the samples fill
\* [44, 44 + 2*N) and writing them leaves the header bytes [0, 44) as the
\* header writes left them.
C6_Layout ==
  Returned =>
     /\ Whole
     /\ \A i \in 0 .. N - 1 :
           GetInt16LE(blob.bytes, 44 + 2 * i) = ExpectedPCM(data[i + 1])
     /\ BytesAt(blob.bytes, 0, 44) =
           BytesAt(WriteHeader(NewDataView(44 + 2 * N), N, EffectiveRate).buffer, 0, 44)

C6_Witness ==
  /\ Returned /\ N = 2
  /\ data[1] = Fin(Den) /\ data[2] = Fin(-Den)
  /\ BytesAt(blob.bytes, 44, 4) = <<255, 127, 0, 128>>

\* C7: a finite sample x is written as trunc(c * 32768) when c < 0 and as
\* trunc(c * 32767) otherwise, c being x clamped to [-1, 1]; so 1.0 gives
\* 32767, -1.0 gives -32768, 0.0 gives 0, x > 1 gives 32767, x < -1 gives
\* -32768, and the value lies in [-32768, 32767] without wrapping.
C7_Quantization ==
  Returned =>
     /\ Whole
     /\ \A i \in 0 .. N - 1 :
           LET x == data[i + 1]
               v == GetInt16LE(blob.bytes, 44 + 2 * i)
           IN x.kind = "fin" =>
                 /\ v = ExpectedFinite(x)
                 /\ ExpectedFinite(x) \in -32768 .. 32767
                 /\ (x.num = Den => v = 32767)
                 /\ (x.num = -Den => v = -32768)
                 /\ (x.num = 0 => v = 0)
                 /\ (x.num > Den => v = 32767)
                 /\ (x.num < -Den => v = -32768)

C7_Witness ==
  /\ Returned /\ N = 2
  /\ data[1] = Fin(Den \div 2) /\ data[2] = Fin(-(Den \div 2))
  /\ GetInt16LE(blob.bytes, 44) = 16383
  /\ GetInt16LE(blob.bytes, 46) = -16384

\* C8 as stated: for every value x and bounds min <= max, clamp returns max
\* if x > max, min if x < min and x otherwise, so the result always lies in
\* [min, max]; clamp(0.5,-1,1) = 0.5, clamp(1.5,-1,1) = 1, clamp(-1.5,-1,1) = -1.
C8_Cases ==
  /\ (Gt(cInput, cOpts.max) => cResult = cOpts.max)
  /\ ((~Gt(cInput, cOpts.max) /\ Lt(cInput, cOpts.min)) => cResult = cOpts.min)
  /\ ((~Gt(cInput, cOpts.max) /\ ~Lt(cInput, cOpts.min)) => cResult = cInput)
C8_Examples ==
  (cOpts = [max |-> Int2Num(1), min |-> Int2Num(-1)]) =>
     /\ (cInput = Fin(Den \div 2) => cResult = Fin(Den \div 2))
     /\ (cInput = Fin(Den + Den \div 2) => cResult = Int2Num(1))
     /\ (cInput = Fin(-(Den + Den \div 2)) => cResult = Int2Num(-1))
C8_InRange == Le(cOpts.min, cResult) /\ Le(cResult, cOpts.max)

C8_ClampAlwaysInRange ==
  (cCalled /\ Le(cOpts.min, cOpts.max)) =>
     C8_Cases /\ C8_Examples /\ C8_InRange

\* C8 amended: as stated, except that the result lies in [min, max] for
\* every x that is not NaN; a NaN x is returned unchanged.
C8_ClampInRangeUnlessNaN ==
  (cCalled /\ Le(cOpts.min, cOpts.max)) =>
     /\ C8_Cases /\ C8_Examples
     /\ (cInput.kind # "nan" => C8_InRange)
     /\ (cInput.kind = "nan" => cResult = cInput)

C8_Witness ==
  /\ cCalled
  /\ cOpts = [max |-> Int2Num(1), min |-> Int2Num(-1)]
  /\ cInput = Fin(Den + Den \div 2)
  /\ cResult = Int2Num(1)

\* C9: a further encode call on the same sample sequence and sampleRate
\* returns a byte-identical buffer, and no call changes the caller's
\* sample sequence.
C9_Deterministic ==
  [][/\ data' = data
     /\ (Returned => blob' = blob)]_vars

C9_Witness ==
  /\ calls = 2 /\ N = 2
  /\ data[1] = Fin(MaxNum) /\ data[2] = NegInf
  /\ blob.size = 48

\* C10: with a non-finite sample in the input encode still returns the
\* whole buffer of 44 + 2*N bytes; +Infinity is written as 32767, -Infinity
\* as -32768, NaN as 0, and the other samples keep their values.
C10_NonFinite ==
  (Returned /\ \E j \in 1 .. N : data[j].kind # "fin") =>
     /\ ~blob.threw
     /\ blob.size = 44 + 2 * N
     /\ \A i \in 0 .. N - 1 :
           LET x == data[i + 1]
               v == GetInt16LE(blob.bytes, 44 + 2 * i)
           IN /\ (x.kind = "pinf" => v = 32767)
              /\ (x.kind = "ninf" => v = -32768)
              /\ (x.kind = "nan" => v = 0)
              /\ (x.kind = "fin" => v = ExpectedFinite(x))

C10_Witness ==
  /\ Returned /\ N = 2
  /\ data[1] = NaN /\ data[2] = Fin(-(Den \div 2))
  /\ BytesAt(blob.bytes, 44, 4) = <<0, 0, 0, 192>>

====
